---------------------------- MODULE Spec2Model ----------------------------
(***************************************************************************)
(* Seasaw: the analysis request lifecycle of the Home page (page.tsx,      *)
(* SearchBar, ServiceGrid, the analyzeService server action) and the       *)
(* score / category derivations of NutritionLabel.                         *)
(*                                                                         *)
(* Strings the code inspects character by character (the query, which is   *)
(* trimmed) are sequences of one-character strings.  Messages the code     *)
(* only builds and stores are TLA+ strings.                                *)
(***************************************************************************)
EXTENDS Integers, Sequences, FiniteSets, TLC

(***************************************************************************)
(* Bounds of the model.                                                    *)
(***************************************************************************)
MaxQueryLen == 3
MaxSubmits == 2
TickMs == 60000
MaxAttrs == 2
MaxIdAttrs == 4
MaxWeight == 2
MaxPoints == 3

(***************************************************************************)
(* Program constants.                                                      *)
(***************************************************************************)
TimeoutMs == 120000

TimeoutMessage ==
  "Analysis timed out. The service might be taking too long to respond."
ValidationMessage == "Please enter a service name to analyze."
GenericMessage == "An unexpected error occurred."

Null == [type |-> "null"]

(***************************************************************************)
(* String.prototype.trim on a sequence of characters.                      *)
(***************************************************************************)
IsSpace(c) == c \in {" ", "\t", "\n"}

RECURSIVE TrimStart(_)
TrimStart(s) ==
  IF s = <<>> THEN <<>>
  ELSE IF IsSpace(Head(s)) THEN TrimStart(Tail(s)) ELSE s

RECURSIVE TrimEnd(_)
TrimEnd(s) ==
  IF s = <<>> THEN <<>>
  ELSE IF IsSpace(s[Len(s)]) THEN TrimEnd(SubSeq(s, 1, Len(s) - 1)) ELSE s

Trim(s) == TrimEnd(TrimStart(s))

\* JavaScript truthiness of a string: the empty string is falsy.
Truthy(s) == s # <<>>

(***************************************************************************)
(* What the user can type into the search input, and the preset names.     *)
(***************************************************************************)
Alphabet == {" ", "a"}

RECURSIVE SeqsUpTo(_, _)
SeqsUpTo(S, n) ==
  IF n = 0 THEN {<<>>}
  ELSE LET shorter == SeqsUpTo(S, n - 1)
       IN  shorter \cup {Append(s, c) : s \in shorter, c \in S}

Texts == SeqsUpTo(Alphabet, MaxQueryLen)

SERVICE_PRESETS ==
  { <<"N","e","t","f","l","i","x">>,
    <<"S","p","o","t","i","f","y">>,
    <<"A","m","a","z","o","n">>,
    <<"G","o","o","g","l","e">>,
    <<"I","n","s","t","a","g","r","a","m">>,
    <<"T","i","k","T","o","k">>,
    <<"U","b","e","r">>,
    <<"D","i","s","c","o","r","d">> }

(***************************************************************************)
(* JavaScript values that cross the wire or are stored in React state.     *)
(***************************************************************************)
Undefined == [type |-> "undefined"]
Str(s) == [type |-> "string", value |-> s]
JObject(detail) == [type |-> "object", detail |-> detail]
JArray(items) == [type |-> "array", items |-> items]
\* res.json() rejecting: the body is empty or is not JSON.
Unparseable == [type |-> "unparseable"]

\* JavaScript truthiness of a value read from a parsed body.
JsTruthy(v) ==
  CASE v.type = "string" -> v.value # ""
    [] v.type \in {"object", "array"} -> TRUE
    [] OTHER -> FALSE

\* String(v), which new Error(v) applies to its argument.
RECURSIVE JsString(_)
JsString(v) ==
  CASE v.type = "string" -> v.value
    [] v.type = "object" -> "[object Object]"
    [] v.type = "array" ->
         IF v.items = <<>> THEN ""
         ELSE IF Len(v.items) = 1 THEN JsString(v.items[1])
         ELSE JsString(v.items[1]) \o "," \o JsString(JArray(Tail(v.items)))
    [] v.type = "null" -> "null"
    [] OTHER -> "undefined"

(***************************************************************************)
(* PolicyAttribute and AnalyzeResponse (types.ts).  label, value and       *)
(* evidence are display text that no derivation reads; they are left out.  *)
(***************************************************************************)
Attr(id, severity, weight, points_earned) ==
  [id |-> id, severity |-> severity, weight |-> weight,
   points_earned |-> points_earned]

Report(service_name, trust_score, grade, attributes, error) ==
  [type |-> "object", service_name |-> service_name,
   trust_score |-> trust_score, grade |-> grade,
   attributes |-> attributes, error |-> error]

\* The reports the oracle answers with in the lifecycle: a clean one, and a
\* degraded one that carries its own `error` field.
SampleReports ==
  { Report("Netflix", 72, "B",
           << Attr("data_selling", "good", 2, 2),
              Attr("encryption", "bad", 2, 0) >>, Undefined),
    Report("Netflix", 0, "F", <<>>, Str("Could not fetch privacy policy")) }

(***************************************************************************)
(* The oracle's answers.                                                   *)
(***************************************************************************)
HttpStatuses ==
  { [status |-> 200, statusText |-> "OK"],
    [status |-> 500, statusText |-> "Internal Server Error"],
    [status |-> 503, statusText |-> "Service Unavailable"] }

\* Response.ok
ResOk(status) == status >= 200 /\ status <= 299

ErrorBodies ==
  { Unparseable,
    Null,
    Str("Service Unavailable"),
    JObject(Undefined),
    JObject(Str("")),
    JObject(Str("rate limited")),
    JObject(JArray(<<JObject(Undefined)>>)) }

SuccessBodies == SampleReports \cup {Unparseable}

(***************************************************************************)
(* Thrown values.                                                          *)
(***************************************************************************)
Err(class, name, message) ==
  [isError |-> TRUE, isDOMException |-> class = "DOMException",
   name |-> name, message |-> message]

AbortError == Err("DOMException", "AbortError", "This operation was aborted")
FetchFailed == Err("TypeError", "TypeError", "fetch failed")
JsonSyntaxError ==
  Err("SyntaxError", "SyntaxError", "Unexpected end of JSON input")
NullDetailError ==
  Err("TypeError", "TypeError",
      "Cannot read properties of null (reading 'detail')")

NoOutcome == [kind |-> "none"]
Resolved(data) == [kind |-> "resolved", data |-> data]
Rejected(err) == [kind |-> "rejected", err |-> err]

(***************************************************************************)
(* analyzeService (actions.ts).  One call is a record: the await it is     *)
(* suspended at (phase), the POST body it sent, the time since its timer   *)
(* was armed, its AbortController's signal, the response line it received  *)
(* and, once the promise has settled, its outcome.                         *)
(***************************************************************************)
NoCall ==
  [phase |-> "unused", query |-> <<>>, body |-> <<>>, posts |-> 0,
   elapsed |-> 0, aborted |-> FALSE, status |-> 0, statusText |-> "",
   resp |-> Undefined, outcome |-> NoOutcome]

DoneCall == [NoCall EXCEPT !.phase = "done"]

\* Awaiting with clearTimeout run as soon as fetch() has resolved.
Awaiting_untilHeaders == {"headers"}

\* The awaits during which the 120 s timer is armed: fetch(), res.json().
Awaiting == {"headers", "body_ok", "body_err"}

\* Lines 36-42: the catch block maps an abort to the timeout error and
\* rethrows everything else.
analyzeService_catch(err) ==
  IF err.isDOMException /\ err.name = "AbortError"
  THEN Err("Error", "Error", TimeoutMessage)
  ELSE err

\* Lines 10-25: trim, reject an empty query, arm the timer, issue the POST.
analyzeService_begin(query) ==
  LET trimmed == Trim(query)
  IN  IF ~Truthy(trimmed)
      THEN [NoCall EXCEPT !.phase = "settling", !.query = query,
                          !.outcome =
                            Rejected(Err("Error", "Error", ValidationMessage))]
      ELSE [NoCall EXCEPT !.phase = "headers", !.query = query,
                          !.body = trimmed, !.posts = 1]

\* Lines 27-32: the error thrown for a response that is not ok.  `read` is
\* how res.json() settled: Resolved(value) or Rejected(error).
analyzeService_notOk(status, statusText, read) ==
  LET body == IF read.kind = "rejected" THEN JObject(Undefined) ELSE read.data
  IN  IF body.type = "null"
      THEN NullDetailError
      ELSE LET detail == IF body.type = "object" THEN body.detail ELSE Undefined
           IN  IF JsTruthy(detail)
               THEN Err("Error", "Error", JsString(detail))
               ELSE Err("Error", "Error",
                        "Backend returned " \o ToString(status) \o ": "
                          \o statusText)

\* Lines 34-35: the value returned for a response that is ok.
analyzeService_ok(read) ==
  IF read.kind = "rejected" THEN Rejected(analyzeService_catch(read.err))
  ELSE Resolved(read.data)

\* How res.json() settles on a body that arrived.
ReadJson(b) ==
  IF b = Unparseable THEN Rejected(JsonSyntaxError) ELSE Resolved(b)

(***************************************************************************)
(* State.                                                                  *)
(***************************************************************************)
VARIABLES
  result,       \* Home: useState<AnalyzeResponse | null>
  error,        \* Home: useState<string | null>
  activeQuery,  \* Home: useState<string>
  query,        \* SearchBar: useState("")
  calls,        \* the transitions started by handleSearch, by submission
  latest,       \* number of submissions so far; the newest one's index
  fetchCount,   \* POST /analyze requests issued, by submission
  resultOf,     \* history: the submission whose completion stored result
  errorOf,      \* history: the submission whose completion stored error
  lastEvent,    \* history: the handler that ran last
  data,         \* NutritionLabel: the report it is given
  label         \* NutritionLabel: what it rendered from data

homeVars == <<result, error, activeQuery>>
reqVars == <<calls, latest, fetchCount, resultOf, errorOf>>
labelVars == <<data, label>>
vars == <<result, error, activeQuery, query, calls, latest, fetchCount,
          resultOf, errorOf, lastEvent, data, label>>

Submissions == 1..MaxSubmits

\* useTransition's isPending: some async transition has not finished.
isPending == \E id \in Submissions : calls[id].phase \notin {"unused", "done"}

\* The lifecycle state the page presents (page.tsx lines 63-106).
Lifecycle ==
  IF isPending THEN "Pending"
  ELSE IF result # Null THEN "Success"
  ELSE IF error # Null THEN "Failure"
  ELSE "Idle"

\* A handler that ran: its name, its argument, the call it completed, and
\* the lifecycle state it ran in.
Event(op, arg, call) ==
  [op |-> op, arg |-> arg, call |-> call, from |-> Lifecycle]

NoLabel == [rendered |-> FALSE]

LifecycleInit ==
  /\ result = Null
  /\ error = Null
  /\ activeQuery = <<>>
  /\ query = <<>>
  /\ calls = [id \in Submissions |-> NoCall]
  /\ latest = 0
  /\ fetchCount = [id \in Submissions |-> 0]
  /\ resultOf = 0
  /\ errorOf = 0
  /\ lastEvent = Event("init", <<>>, NoCall)

Init ==
  /\ LifecycleInit
  /\ data = Null
  /\ label = NoLabel

(***************************************************************************)
(* Home.handleSearch (page.tsx lines 18-33).                               *)
(***************************************************************************)
\* handleSearch_clear without setResult(null).
handleSearch_clear_keepsResult(q) ==
  /\ error' = Null
  /\ activeQuery' = q
  /\ UNCHANGED result

\* handleSearch_clear without setError(null).
handleSearch_clear_keepsError(q) ==
  /\ result' = Null
  /\ activeQuery' = q
  /\ UNCHANGED error

\* Lines 19-21: setError(null); setResult(null); setActiveQuery(query).
handleSearch_clear(q) ==
  /\ error' = Null
  /\ result' = Null
  /\ activeQuery' = q

\* Lines 23-25: startTransition runs the async callback up to its first
\* await, which is analyzeService up to its fetch.
startTransition(q) ==
  /\ latest < MaxSubmits
  /\ latest' = latest + 1
  /\ calls' = [calls EXCEPT ![latest + 1] = analyzeService_begin(q)]
  /\ fetchCount' =
       [fetchCount EXCEPT ![latest + 1] = @ + analyzeService_begin(q).posts]

handleSearch(q) ==
  /\ handleSearch_clear(q)
  /\ startTransition(q)
  /\ resultOf' = IF result' = Null THEN 0 ELSE resultOf
  /\ errorOf' = IF error' = Null THEN 0 ELSE errorOf

\* Lines 26-31: the continuation after `await analyzeService(query)`.
Settle(id) ==
  /\ calls[id].phase = "settling"
  /\ LET out == calls[id].outcome
     IN  IF out.kind = "resolved"
         THEN /\ result' = out.data
              /\ resultOf' = id
              /\ UNCHANGED <<error, errorOf>>
         ELSE /\ error' = Str(IF out.err.isError THEN out.err.message
                                                ELSE GenericMessage)
              /\ errorOf' = id
              /\ UNCHANGED <<result, resultOf>>
  /\ calls' = [calls EXCEPT ![id] = DoneCall]
  /\ lastEvent' = Event("settle", <<>>, calls[id])
  /\ UNCHANGED <<activeQuery, query, latest, fetchCount, labelVars>>

(***************************************************************************)
(* SearchBar (SearchBar.tsx).                                              *)
(***************************************************************************)
\* CanSubmit without the !isLoading test.
CanSubmit_ignoresLoading(q, isLoading) == Truthy(Trim(q))

\* CanSubmit without the query.trim() test.
CanSubmit_noTrimTest(q, isLoading) == ~isLoading

\* Line 60: the guard of handleSubmit.
CanSubmit(q, isLoading) == Truthy(Trim(q)) /\ ~isLoading

\* Line 98: the submit button's `disabled`.
SubmitDisabled == ~Truthy(Trim(query)) \/ isPending

\* Lines 88, 91: typing into the input, which is disabled while loading.
onChange(text) ==
  /\ ~isPending
  /\ query' = text
  /\ lastEvent' = Event("change", <<>>, NoCall)
  /\ UNCHANGED <<homeVars, reqVars, labelVars>>

\* Lines 58-63.
handleSubmit ==
  /\ lastEvent' = Event("submit", query, NoCall)
  /\ IF CanSubmit(query, isPending)
     THEN handleSearch(Trim(query))
     ELSE UNCHANGED <<homeVars, reqVars>>
  /\ UNCHANGED <<query, labelVars>>

(***************************************************************************)
(* ServiceGrid (ServiceGrid.tsx) and the reset button (page.tsx).          *)
(***************************************************************************)
\* page.tsx line 63: the grid is rendered only with no result and no
\* transition pending; ServiceGrid.tsx line 27: cards are disabled while
\* loading.
GridShown == result = Null /\ ~isPending

ServiceCard_onClick(name) ==
  /\ GridShown
  /\ ~isPending
  /\ handleSearch(name)
  /\ lastEvent' = Event("select", name, NoCall)
  /\ UNCHANGED <<query, labelVars>>

\* page.tsx line 92: the condition under which the results section, the
\* report in it, is rendered.
ReportShown == result # Null /\ ~isPending

\* page.tsx lines 92-104: the "Analyze another service" button is part of
\* the results section and of no other.
ResetShown == ReportShown

\* page.tsx lines 97-101.
Reset ==
  /\ ResetShown
  /\ result' = Null
  /\ error' = Null
  /\ activeQuery' = <<>>
  /\ resultOf' = 0
  /\ errorOf' = 0
  /\ lastEvent' = Event("reset", <<>>, NoCall)
  /\ UNCHANGED <<query, calls, latest, fetchCount, labelVars>>

(***************************************************************************)
(* The oracle, the network and the timer, as analyzeService sees them.     *)
(***************************************************************************)
Step(id, call) ==
  /\ calls' = [calls EXCEPT ![id] = call]
  /\ lastEvent' = Event("oracle", <<>>, NoCall)
  /\ UNCHANGED <<homeVars, query, latest, fetchCount, resultOf, errorOf,
                 labelVars>>

\* Line 19 resumes: the response line has arrived.
ResponseHeaders(id, st) ==
  /\ calls[id].phase = "headers"
  /\ Step(id, [calls[id] EXCEPT
                 !.phase = IF ResOk(st.status) THEN "body_ok" ELSE "body_err",
                 !.status = st.status, !.statusText = st.statusText])

\* Line 19 rejects: the request failed below HTTP.
FetchRejects(id) ==
  /\ calls[id].phase = "headers"
  /\ Step(id, [calls[id] EXCEPT
                 !.phase = "settling",
                 !.outcome = Rejected(analyzeService_catch(FetchFailed))])

\* Line 34 resumes: the body of an ok response has been read.
SuccessBody(id, b) ==
  /\ calls[id].phase = "body_ok"
  /\ Step(id, [calls[id] EXCEPT
                 !.phase = "settling", !.resp = b,
                 !.outcome = analyzeService_ok(ReadJson(b))])

\* Line 28 resumes: the body of a response that is not ok has been read.
ErrorBody(id, b) ==
  /\ calls[id].phase = "body_err"
  /\ Step(id, [calls[id] EXCEPT
                 !.phase = "settling", !.resp = b,
                 !.outcome =
                   Rejected(analyzeService_catch(
                     analyzeService_notOk(calls[id].status,
                                          calls[id].statusText,
                                          ReadJson(b))))])

\* Time passes for a call whose timer is armed.
Tick(id) ==
  /\ calls[id].phase \in Awaiting
  /\ calls[id].elapsed < TimeoutMs
  /\ Step(id, [calls[id] EXCEPT !.elapsed = @ + TickMs])

\* Line 16: the timer fires, controller.abort() rejects the pending await
\* with an AbortError and the function runs to its end.
TimerFires(id) ==
  /\ calls[id].phase \in Awaiting
  /\ calls[id].elapsed >= TimeoutMs
  /\ LET c == calls[id]
         out == CASE c.phase = "headers" ->
                       Rejected(analyzeService_catch(AbortError))
                  [] c.phase = "body_ok" ->
                       analyzeService_ok(Rejected(AbortError))
                  [] c.phase = "body_err" ->
                       Rejected(analyzeService_catch(
                         analyzeService_notOk(c.status, c.statusText,
                                              Rejected(AbortError))))
     IN  Step(id, [c EXCEPT !.phase = "settling", !.aborted = TRUE,
                            !.outcome = out])

Next ==
  \/ \E text \in Texts : onChange(text)
  \/ handleSubmit
  \/ \E name \in SERVICE_PRESETS : ServiceCard_onClick(name)
  \/ Reset
  \/ \E id \in Submissions, st \in HttpStatuses : ResponseHeaders(id, st)
  \/ \E id \in Submissions : FetchRejects(id)
  \/ \E id \in Submissions, b \in SuccessBodies : SuccessBody(id, b)
  \/ \E id \in Submissions, b \in ErrorBodies : ErrorBody(id, b)
  \/ \E id \in Submissions : Tick(id)
  \/ \E id \in Submissions : TimerFires(id)
  \/ \E id \in Submissions : Settle(id)

Spec == Init /\ [][Next]_vars

\* What the event loop guarantees: time passes for an armed timer, a due
\* timer's callback runs, and the continuation of a settled promise runs.
\* Nothing is assumed of the oracle, which may never answer.
Fairness ==
  \A id \in Submissions :
    /\ WF_vars(Tick(id))
    /\ WF_vars(TimerFires(id))
    /\ WF_vars(Settle(id))

FairSpec == Spec /\ Fairness

(***************************************************************************)
(* NutritionLabel (NutritionLabel.tsx).                                    *)
(*                                                                         *)
(* A JavaScript number is an exact rational n/d (d > 0, lowest terms), or  *)
(* NaN, Infinity or -Infinity; rounding of doubles is not modelled.        *)
(***************************************************************************)
RECURSIVE Gcd(_, _)
Gcd(a, b) == IF b = 0 THEN a ELSE Gcd(b, a % b)

Abs(x) == IF x < 0 THEN -x ELSE x

Rat(n, d) ==
  LET g == Gcd(Abs(n), Abs(d))
      sgn == IF d < 0 THEN -1 ELSE 1
  IN  [type |-> "number", n |-> sgn * (n \div g), d |-> sgn * (d \div g)]

NaN == [type |-> "NaN"]
PosInfinity == [type |-> "Infinity"]
NegInfinity == [type |-> "-Infinity"]

\* a / b on integers.
JsDiv(a, b) ==
  IF b # 0 THEN Rat(a, b)
  ELSE IF a = 0 THEN NaN
  ELSE IF a > 0 THEN PosInfinity ELSE NegInfinity

\* x * k for an integer k > 0.
JsTimes(x, k) == IF x.type = "number" THEN Rat(x.n * k, x.d) ELSE x

\* x >= k for an integer k; every comparison with NaN is false.
JsGeq(x, k) ==
  CASE x.type = "number" -> x.n >= k * x.d
    [] x.type = "Infinity" -> TRUE
    [] OTHER -> FALSE

\* Lines 12-33.
CATEGORIES ==
  << [title |-> "Data Practices", icon |-> "lock",
      ids |-> <<"data_selling", "data_sharing", "third_party_tracking">>],
     [title |-> "Your Rights", icon |-> "person",
      ids |-> <<"account_deletion", "class_action_waiver",
                "arbitration_clause">>],
     [title |-> "Security & Retention", icon |-> "shield",
      ids |-> <<"encryption", "data_retention", "government_requests">>],
     [title |-> "Legal Terms", icon |-> "clipboard",
      ids |-> <<"unilateral_changes", "liability_limitation",
                "content_license">>] >>

\* Lines 58-60: the bar's colour, from the score it is given.
SeverityBar_color(score) ==
  IF JsGeq(score, 70) THEN "var(--good)"
  ELSE IF JsGeq(score, 40) THEN "var(--neutral)" ELSE "var(--bad)"

\* Lines 73-74.
AttributeRow_fillPercent(attr) ==
  IF attr.weight > 0 THEN JsTimes(JsDiv(attr.points_earned, attr.weight), 100)
  ELSE Rat(0, 1)

\* Lines 71-92: the row, and the score its SeverityBar is given.
AttributeRow(attr) ==
  [attr |-> attr,
   fillPercent |-> AttributeRow_fillPercent(attr),
   color |-> SeverityBar_color(AttributeRow_fillPercent(attr))]

\* Array.prototype.reduce((sum, a) => sum + f(a), 0).
RECURSIVE SumWeight(_)
SumWeight(attrs) ==
  IF attrs = <<>> THEN 0 ELSE attrs[1].weight + SumWeight(Tail(attrs))

RECURSIVE SumPoints(_)
SumPoints(attrs) ==
  IF attrs = <<>> THEN 0 ELSE attrs[1].points_earned + SumPoints(Tail(attrs))

\* Line 135: the width of the breakdown bar.
ScoreBreakdown_width(totalEarned, totalPossible) ==
  JsTimes(JsDiv(totalEarned, totalPossible), 100)

\* Lines 122-137.
ScoreBreakdown(d) ==
  LET totalPossible == SumWeight(d.attributes)
      totalEarned == SumPoints(d.attributes)
  IN  [totalPossible |-> totalPossible, totalEarned |-> totalEarned,
       width |-> ScoreBreakdown_width(totalEarned, totalPossible)]

\* Array.prototype.filter(...).length on severity.
CountSeverity(attrs, sev) ==
  Cardinality({i \in 1..Len(attrs) : attrs[i].severity = sev})

\* Line 191 and attrMap.get(id): new Map(entries) keeps the last entry of a
\* key; get answers undefined for a key that is absent.
attrMap_get(attrs, id) ==
  LET at == {i \in 1..Len(attrs) : attrs[i].id = id}
  IN  IF at = {} THEN Undefined
      ELSE attrs[CHOOSE i \in at : \A j \in at : j <= i]

\* Lines 236-238: cat.ids.map(get).filter(defined).
RECURSIVE catAttrs(_, _)
catAttrs(attrs, ids) ==
  IF ids = <<>> THEN <<>>
  ELSE LET a == attrMap_get(attrs, Head(ids))
           rest == catAttrs(attrs, Tail(ids))
       IN  IF a = Undefined THEN rest ELSE <<a>> \o rest

\* CategorySection without its early return for an empty category.
CategorySection_keepsEmpty(title, icon, attributes) ==
  << [title |-> title, icon |-> icon,
      rows |-> [i \in 1..Len(attributes) |-> AttributeRow(attributes[i])]] >>

\* Lines 149-181: a section, or nothing (<<>>) for a category without
\* attributes.
CategorySection(title, icon, attributes) ==
  IF Len(attributes) = 0 THEN <<>>
  ELSE << [title |-> title, icon |-> icon,
           rows |-> [i \in 1..Len(attributes) |->
                       AttributeRow(attributes[i])]] >>

\* Lines 235-247: CATEGORIES.map(...), in order.
RECURSIVE Sections(_, _)
Sections(attrs, cats) ==
  IF cats = <<>> THEN <<>>
  ELSE CategorySection(Head(cats).title, Head(cats).icon,
                       catAttrs(attrs, Head(cats).ids))
         \o Sections(attrs, Tail(cats))

\* Lines 183-286.
NutritionLabel(d) ==
  [rendered |-> TRUE,
   goodCount |-> CountSeverity(d.attributes, "good"),
   badCount |-> CountSeverity(d.attributes, "bad"),
   neutralCount |-> CountSeverity(d.attributes, "neutral"),
   breakdown |-> ScoreBreakdown(d),
   sections |-> Sections(d.attributes, CATEGORIES)]

(***************************************************************************)
(* The reports NutritionLabel is applied to.  Ids are unique within a      *)
(* report (the data model's join key, and the React key of each row).      *)
(***************************************************************************)
\* Ids of the taxonomy (two of one category among them) and one outside it.
IdPool ==
  {"data_selling", "data_sharing", "account_deletion", "encryption",
   "unilateral_changes", "cookie_banner"}

\* Sequences without repetition, of length at most n.
RECURSIVE InjSeqs(_, _)
InjSeqs(S, n) ==
  IF n = 0 THEN {<<>>}
  ELSE LET shorter == InjSeqs(S, n - 1)
       IN  shorter \cup
             UNION { {Append(s, x) : x \in S \ {s[i] : i \in 1..Len(s)}}
                       : s \in shorter }

\* Reports that vary in which ids they hold, and in what order.
IdReports ==
  { Report("Netflix", 72, "B",
           [i \in 1..Len(ids) |-> Attr(ids[i], "good", 1, 1)], Undefined)
      : ids \in InjSeqs(IdPool, MaxIdAttrs) }

PositionIds ==
  <<"data_selling", "account_deletion", "encryption", "unilateral_changes",
    "data_sharing", "data_retention">>

Weights == 0..MaxWeight
Points == -1..MaxPoints

\* Reports that vary in their numbers, sound ones and ones that break
\* 0 <= points_earned <= weight.
NumAttrs(n) == [1..n -> Weights \X Points]

NumReports ==
  { Report("Netflix", 72, "B",
           [i \in 1..Len(wp) |->
              Attr(PositionIds[i], "neutral", wp[i][1], wp[i][2])],
           Undefined)
      : wp \in UNION {NumAttrs(n) : n \in 0..MaxAttrs} }

LabelReports == IdReports \cup NumReports

LabelInit ==
  /\ LifecycleInit
  /\ data \in LabelReports
  /\ label = NoLabel

\* <NutritionLabel data={data} />
Render ==
  /\ label = NoLabel
  /\ label' = NutritionLabel(data)
  /\ lastEvent' = Event("render", <<>>, NoCall)
  /\ UNCHANGED <<homeVars, query, reqVars, data>>

LabelNext == Render

SpecLabel == LabelInit /\ [][LabelNext]_vars

(***************************************************************************)
(*                               Properties                                *)
(***************************************************************************)

\* A submit event of the search form whose query trims to nothing.
EmptySubmit(ev) == ev.op = "submit" /\ ~Truthy(Trim(ev.arg))

\* A step in which Home.handleSearch ran.
Submitted == latest' = latest + 1

(***************************************************************************)
(* C1.  Submitting a query that is empty or whitespace-only never issues a *)
(* POST /analyze and changes nothing of the lifecycle: result, error,      *)
(* active query, the transitions and the lifecycle state stay as they      *)
(* were (Idle stays Idle, Pending is not entered), and the form signals    *)
(* the invalid input by its disabled submit button.  analyzeService itself *)
(* rejects such a query with its validation error before any fetch.        *)
(***************************************************************************)
C1_EmptyQueryNeverReachesOracle ==
  /\ \A q \in Texts :
       ~Truthy(Trim(q)) =>
         /\ analyzeService_begin(q).posts = 0
         /\ analyzeService_begin(q).outcome =
              Rejected(Err("Error", "Error", ValidationMessage))
  /\ [][EmptySubmit(lastEvent') =>
          /\ UNCHANGED <<result, error, activeQuery, calls, latest,
                         fetchCount>>
          /\ Lifecycle' = Lifecycle
          /\ SubmitDisabled']_vars

C1_Witness ==
  /\ EmptySubmit(lastEvent)
  /\ lastEvent.arg # <<>>
  /\ lastEvent.from = "Idle"
  /\ Lifecycle = "Idle"
  /\ \A id \in Submissions : fetchCount[id] = 0

(***************************************************************************)
(* C2.  A submission of a query q that is non-empty after trimming, made   *)
(* in Idle, Success or Failure, runs handleSearch: it clears result and    *)
(* error, records q as the active query, enters Pending and issues exactly *)
(* one POST /analyze, whose body is q, for that submission; no other       *)
(* submission's count changes, and no step that is not a submission issues *)
(* a POST (no retry).                                                      *)
(***************************************************************************)
C2_SubmitStartsExactlyOneCall ==
  /\ [][(/\ lastEvent'.op = "submit"
         /\ Truthy(Trim(lastEvent'.arg))
         /\ lastEvent'.from \in {"Idle", "Success", "Failure"})
          => Submitted /\ activeQuery' = Trim(lastEvent'.arg)]_vars
  /\ [][lastEvent'.op = "select"
          => Submitted /\ activeQuery' = lastEvent'.arg]_vars
  /\ [][Submitted =>
          /\ lastEvent'.op \in {"submit", "select"}
          /\ Truthy(Trim(activeQuery'))
          /\ result' = Null
          /\ error' = Null
          /\ Lifecycle' = "Pending"
          /\ calls'[latest'].phase = "headers"
          /\ calls'[latest'].body = activeQuery'
          /\ fetchCount'[latest'] = 1
          /\ \A id \in Submissions \ {latest'} :
               fetchCount'[id] = fetchCount[id]]_vars
  /\ [][~Submitted => fetchCount' = fetchCount]_vars

C2_Witness ==
  /\ lastEvent.op = "submit"
  /\ lastEvent.from = "Failure"
  /\ Lifecycle = "Pending"
  /\ latest = 2
  /\ fetchCount[1] = 1
  /\ fetchCount[2] = 1
  /\ activeQuery = Trim(lastEvent.arg)
  /\ activeQuery # lastEvent.arg

(***************************************************************************)
(* C3.  A result or an error that is stored was stored by the completion   *)
(* of the most recent submission, never by an older one, and while Pending *)
(* the active query is the query of the most recent submission, which is   *)
(* the one in flight.                                                      *)
(***************************************************************************)
C3_OnlyLatestSubmissionIsObserved ==
  /\ result # Null => resultOf = latest
  /\ error # Null => errorOf = latest
  /\ isPending =>
       /\ calls[latest].phase \notin {"unused", "done"}
       /\ activeQuery = calls[latest].query

C3_Witness ==
  /\ latest = 2
  /\ Lifecycle = "Success"
  /\ resultOf = 2
  /\ lastEvent.op = "settle"

(***************************************************************************)
(* C4.  Reset is offered in both terminal states, Success and Failure, and *)
(* a reset leaves result = null, error = null, activeQuery = "" and the    *)
(* lifecycle Idle, without a POST /analyze.                                *)
(***************************************************************************)
C4_ResetFromSuccessAndFailure ==
  /\ Lifecycle \in {"Success", "Failure"} => ResetShown
  /\ lastEvent.op = "reset" =>
       /\ result = Null
       /\ error = Null
       /\ activeQuery = <<>>
       /\ Lifecycle = "Idle"

(***************************************************************************)
(* C5.  A call whose 120 s timer fired, whether it was waiting for the     *)
(* response line or reading the response body, ends in Failure with        *)
(* exactly the timeout message and no result.                              *)
(***************************************************************************)
C5_TimeoutYieldsTimeoutMessage ==
  (lastEvent.op = "settle" /\ lastEvent.call.aborted) =>
    /\ lastEvent.call.elapsed >= TimeoutMs
    /\ error = Str(TimeoutMessage)
    /\ result = Null
    /\ Lifecycle = "Failure"

(***************************************************************************)
(* C6.  A call answered with a status that is not ok ends in Failure with  *)
(* no result; the message is the body's `detail` when the body is a JSON   *)
(* object with a non-empty string `detail`, and otherwise (no body, a body *)
(* that does not parse, no usable detail) it is                            *)
(* "Backend returned {status}: {statusText}".                              *)
(***************************************************************************)
UsableDetail(resp) ==
  /\ resp.type = "object"
  /\ resp.detail.type = "string"
  /\ resp.detail.value # ""

HttpErrorMessage(call) ==
  IF UsableDetail(call.resp) THEN call.resp.detail.value
  ELSE "Backend returned " \o ToString(call.status) \o ": "
         \o call.statusText

C6_HttpErrorMessage ==
  (/\ lastEvent.op = "settle"
   /\ lastEvent.call.status # 0
   /\ ~ResOk(lastEvent.call.status)) =>
    /\ error = Str(HttpErrorMessage(lastEvent.call))
    /\ result = Null
    /\ Lifecycle = "Failure"

(***************************************************************************)
(* C7.  Result and error are never both stored, and neither is stored      *)
(* while Pending.  A call answered with an ok status and a report, also a  *)
(* report carrying its own `error` field, ends in Success with that report *)
(* stored and no lifecycle error; every other call ends in Failure with a  *)
(* non-empty message and no report stored or shown.                        *)
(***************************************************************************)
SuccessfulResponse(call) ==
  ResOk(call.status) /\ call.resp \in SampleReports

C7_ResultAndErrorExclusive ==
  /\ ~(result # Null /\ error # Null)
  /\ isPending => result = Null /\ error = Null
  /\ lastEvent.op = "settle" =>
       IF SuccessfulResponse(lastEvent.call)
       THEN /\ result = lastEvent.call.resp
            /\ error = Null
            /\ Lifecycle = "Success"
       ELSE /\ error # Null
            /\ error.value # ""
            /\ result = Null
            /\ ~ReportShown
            /\ Lifecycle = "Failure"

C7_Witness ==
  /\ lastEvent.op = "settle"
  /\ latest = 2
  /\ Lifecycle = "Success"
  /\ result.error # Undefined
  /\ error = Null

(***************************************************************************)
(* Reference values for the NutritionLabel properties, written from the    *)
(* statement of each property and not from the component.                  *)
(***************************************************************************)
\* 0 <= x <= 100 for a finite number x.
InPercentRange(x) ==
  /\ x.type = "number"
  /\ 0 <= x.n
  /\ x.n <= 100 * x.d

\* The fill percents handed to the SeverityBar of every rendered row.
RowFills(l) ==
  UNION { {l.sections[c].rows[r].fillPercent :
             r \in 1..Len(l.sections[c].rows)} : c \in 1..Len(l.sections) }

(***************************************************************************)
(* C8.  The aggregate fill percent of the score breakdown is 0 for a       *)
(* report whose attributes have total weight 0 (a report without           *)
(* attributes included), and totalEarned / totalPossible * 100 for every   *)
(* other report, with totalPossible the sum of the weights and totalEarned *)
(* the sum of points_earned.                                               *)
(***************************************************************************)
C8_AggregateFillZeroGuard ==
  label.rendered =>
    LET totalPossible == SumWeight(data.attributes)
        totalEarned == SumPoints(data.attributes)
    IN  /\ label.breakdown.totalPossible = totalPossible
        /\ label.breakdown.totalEarned = totalEarned
        /\ label.breakdown.width =
             IF totalPossible = 0 THEN Rat(0, 1)
             ELSE Rat(100 * totalEarned, totalPossible)

(***************************************************************************)
(* C9.  The fill percent handed to the bar of every rendered attribute row *)
(* lies in [0, 100], also for attributes with points_earned > weight,      *)
(* points_earned < 0 or weight = 0, and so does the aggregate fill percent *)
(* of every report.                                                        *)
(***************************************************************************)
C9_FillPercentWithinRange ==
  label.rendered =>
    /\ \A x \in RowFills(label) : InPercentRange(x)
    /\ InPercentRange(label.breakdown.width)

(***************************************************************************)
(* C10.  The sections rendered for a report are the reference              *)
(* classification: the taxonomy's categories in their fixed order, each    *)
(* with the report's attributes whose id it lists, in the order of its id  *)
(* list and found by id wherever they stand in the report; a category      *)
(* without a match is left out; an attribute whose id no category lists    *)
(* is in no section.  A report with exactly the ids data_selling,          *)
(* account_deletion, encryption and unilateral_changes gives 4 sections of *)
(* 1 attribute each.                                                       *)
(***************************************************************************)
HasId(attrs, id) == \E i \in 1..Len(attrs) : attrs[i].id = id

WithId(attrs, id) == attrs[CHOOSE i \in 1..Len(attrs) : attrs[i].id = id]

RefCategory(attrs, cat) ==
  LET present == SelectSeq(cat.ids, LAMBDA id : HasId(attrs, id))
  IN  [title |-> cat.title,
       attributes |-> [i \in 1..Len(present) |-> WithId(attrs, present[i])]]

RefClassify(attrs) ==
  SelectSeq([c \in 1..Len(CATEGORIES) |-> RefCategory(attrs, CATEGORIES[c])],
            LAMBDA s : Len(s.attributes) > 0)

Displayed(l) ==
  [c \in 1..Len(l.sections) |->
     [title |-> l.sections[c].title,
      attributes |-> [r \in 1..Len(l.sections[c].rows) |->
                        l.sections[c].rows[r].attr]]]

IdsOf(attrs) == {attrs[i].id : i \in 1..Len(attrs)}

CategoryIndex(title) ==
  CHOOSE c \in 1..Len(CATEGORIES) : CATEGORIES[c].title = title

FourCategoryIds ==
  {"data_selling", "account_deletion", "encryption", "unilateral_changes"}

C10_ClassifyMatchesReference ==
  label.rendered =>
    LET shown == Displayed(label)
        attrs == data.attributes
    IN  /\ shown = RefClassify(attrs)
        /\ \A i, j \in 1..Len(shown) :
             i < j => CategoryIndex(shown[i].title)
                        < CategoryIndex(shown[j].title)
        /\ \A c \in 1..Len(shown) :
             /\ Len(shown[c].attributes) > 0
             /\ \A r \in 1..Len(shown[c].attributes) :
                  /\ \E i \in 1..Len(attrs) : attrs[i] = shown[c].attributes[r]
                  /\ \E k \in 1..3 :
                       CATEGORIES[CategoryIndex(shown[c].title)].ids[k]
                         = shown[c].attributes[r].id
        /\ \A i \in 1..Len(attrs) :
             Cardinality({<<c, r>> \in (1..Len(shown)) \X (1..3) :
                            /\ r <= Len(shown[c].attributes)
                            /\ shown[c].attributes[r] = attrs[i]})
               = IF \E c \in 1..Len(CATEGORIES), k \in 1..3 :
                      CATEGORIES[c].ids[k] = attrs[i].id
                 THEN 1 ELSE 0
        /\ IdsOf(attrs) = FourCategoryIds =>
             /\ Len(shown) = 4
             /\ \A c \in 1..4 : Len(shown[c].attributes) = 1

C10_Witness ==
  /\ label.rendered
  /\ Len(data.attributes) = 4
  /\ data.attributes[1].id = "unilateral_changes"
  /\ data.attributes[4].id = "data_selling"
  /\ IdsOf(data.attributes) = FourCategoryIds
  /\ Len(label.sections) = 4
  /\ label.sections[1].rows[1].attr = data.attributes[4]

(***************************************************************************)
(* C11.  With the timer and the continuations scheduled fairly, every      *)
(* submission that enters Pending leaves it for Success or Failure: the    *)
(* lifecycle is never Pending forever, whether the oracle answers, the     *)
(* request fails below HTTP, or the oracle never answers.                  *)
(***************************************************************************)
C11_PendingEventuallyEnds ==
  /\ (Lifecycle = "Pending") ~> (Lifecycle \in {"Success", "Failure"})
  /\ \A id \in Submissions :
       (calls[id].phase \in Awaiting \cup {"settling"})
         ~> (calls[id].phase = "done")

\* The oracle never answered, and the timer ended the call.
C11_Witness ==
  /\ lastEvent.op = "settle"
  /\ lastEvent.from = "Pending"
  /\ lastEvent.call.status = 0
  /\ lastEvent.call.aborted
  /\ lastEvent.call.elapsed >= TimeoutMs
  /\ Lifecycle = "Failure"

=============================================================================
